---- MODULE Spec2Model ----
(***************************************************************************)
(* A model of the multi-channel table formatter, class Output of           *)
(* multi_cmd_window.py: construction with width resolution, add_data and   *)
(* print_all_data; and of the command lookup of low_level_interface.py     *)
(* (MainClass.find_command_by_trigger) with its caller in main.py          *)
(* (Main.parse_input).                                                     *)
(*                                                                         *)
(* A Python string is a sequence of one-character strings, a 0-based       *)
(* Python index k is position k + 1 here.  The Python value None is the    *)
(* empty sequence: a width is None or <<w>>, the headers are None or a     *)
(* non-empty sequence of strings (the constructor never stores an empty    *)
(* list of headers, line 14).                                              *)
(***************************************************************************)
EXTENDS Integers, Sequences, FiniteSets

VARIABLES
    constructed,     \* TRUE once Output(...) has returned an instance
    no_channels,     \* self.no_channels
    total_width,     \* self.total_width
    border,          \* self.border
    verbose,         \* self.verbose
    headers,         \* self.headers
    channel_widths,  \* self.channel_widths
    channel_data,    \* self.channel_data
    result,          \* the last call as its caller saw it
    printed,         \* what the last call printed, line by line
    wrapped_data,    \* wrapped_data of the last print_all_data (line 61)
    initial_widths,  \* history: self.channel_widths before resolution (line 20)
    headers_arg,     \* history: the headers argument of the constructor (line 3)
    appended,        \* history: the (channel, item) pairs add_data accepted
    commands,        \* MainClass.commands (low_level_interface.py line 57)
    lookup           \* the last find_command_by_trigger or parse_input call

vars == <<constructed, no_channels, total_width, border, verbose, headers,
          channel_widths, channel_data, result, printed, wrapped_data,
          initial_widths, headers_arg, appended, commands, lookup>>

(***************************************************************************)
(* Bounds of the model.                                                    *)
(***************************************************************************)
MaxChannels == 2
MaxTotalWidth == 4
MaxEntries == 2
MaxTextLen == 5
MaxWrapWidth == 4
MaxCommands == 2

None == <<>>

Min(a, b) == IF a < b THEN a ELSE b
Max(a, b) == IF a > b THEN a ELSE b

(***************************************************************************)
(* Python's str operations, as the formatter uses them.                    *)
(***************************************************************************)
\* The characters str.strip() removes.
Whitespace == {" ", "\t", "\n", "\r"}

\* [c] * k: a list of k copies of c (a string when c is a character), empty
\* when k <= 0.
Repeat(c, k) == [i \in 1..Max(k, 0) |-> c]

\* s[:k] with Python's slice rules (a negative k counts from the end).
Prefix(s, k) ==
    LET e == IF k < 0 THEN Max(Len(s) + k, 0) ELSE Min(k, Len(s))
    IN  SubSeq(s, 1, e)

\* s[k:] with Python's slice rules.
Suffix(s, k) ==
    LET b == IF k < 0 THEN Max(Len(s) + k, 0) ELSE Min(k, Len(s))
    IN  SubSeq(s, b + 1, Len(s))

\* s.strip(): s without its leading and trailing whitespace.
Strip(s) ==
    LET keep == {i \in 1..Len(s) : s[i] \notin Whitespace}
    IN  IF keep = {} THEN <<>>
        ELSE LET lo == CHOOSE i \in keep : \A j \in keep : i <= j
                 hi == CHOOSE i \in keep : \A j \in keep : j <= i
             IN  SubSeq(s, lo, hi)

\* s.rfind(c, lo, hi): the highest 0-based index i with lo <= i < hi and
\* s[i] = c, or -1.
RFind(s, c, lo, hi) ==
    LET hits == {i \in lo..(Min(hi, Len(s)) - 1) : s[i + 1] = c}
    IN  IF hits = {} THEN -1
        ELSE CHOOSE i \in hits : \A j \in hits : j <= i

\* s.split(sep) for a one-character separator: the pieces between the
\* occurrences of sep, an empty string giving one empty piece.
RECURSIVE Split(_, _)
Split(s, sep) ==
    LET hits == {i \in 1..Len(s) : s[i] = sep}
    IN  IF hits = {} THEN <<s>>
        ELSE LET p == CHOOSE i \in hits : \A j \in hits : i <= j
             IN  <<SubSeq(s, 1, p - 1)>> \o Split(SubSeq(s, p + 1, Len(s)), sep)

\* s.ljust(w): s padded with spaces on the right up to w characters.
Ljust(s, w) == s \o Repeat(" ", w - Len(s))

\* s.center(w): CPython puts marg // 2 + (marg & w & 1) spaces on the left.
Center(s, w) ==
    IF Len(s) >= w THEN s
    ELSE LET marg == w - Len(s)
             left == (marg \div 2) + (IF marg % 2 = 1 /\ w % 2 = 1 THEN 1 ELSE 0)
         IN  Repeat(" ", left) \o s \o Repeat(" ", marg - left)

\* sep.join(cells)
RECURSIVE Join(_, _)
Join(sep, cells) ==
    IF cells = <<>> THEN <<>>
    ELSE IF Len(cells) = 1 THEN cells[1]
    ELSE cells[1] \o sep \o Join(sep, Tail(cells))

\* str(n) for an integer n.
Digit(d) == <<"0", "1", "2", "3", "4", "5", "6", "7", "8", "9">>[d + 1]

RECURSIVE NatToStr(_)
NatToStr(n) ==
    IF n < 10 THEN <<Digit(n)>> ELSE NatToStr(n \div 10) \o <<Digit(n % 10)>>

IntToStr(n) == IF n < 0 THEN <<"-">> \o NatToStr(-n) ELSE NatToStr(n)

\* str(data): an item is a string, kept as it is, or an integer.
Str(data) == IF data.t = "int" THEN IntToStr(data.v) ELSE data.v

(***************************************************************************)
(* The inputs the callers draw from.                                       *)
(***************************************************************************)
StrItem(s) == [t |-> "str", v |-> s]
IntItem(n) == [t |-> "int", v |-> n]

StrItems ==
    { StrItem(<<"a", " ", "b", "c">>),
      StrItem(<<" ", "a", " ">>),
      StrItem(<<"a", "\n", "b", "c", "d">>) }

IntItems == { IntItem(12) }

ExplicitWidths == {2}

HeaderText == <<"h">>

partition_char == "|"
horizontal_line_char == "-"

(***************************************************************************)
(* Output.__init__                                                         *)
(***************************************************************************)
\* The sum of the widths that are not None (line 23).
RECURSIVE SumSpecified(_)
SumSpecified(ws) ==
    IF ws = <<>> THEN 0
    ELSE (IF Head(ws) = None THEN 0 ELSE Head(ws)[1]) + SumSpecified(Tail(ws))

\* The widths the constructor starts from (line 20): the argument unless it
\* is None or empty.
InitialWidths(n, cw_arg) ==
    IF cw_arg # <<>> THEN cw_arg ELSE Repeat(None, n)

\* remaining_width (line 24).
RemainingWidth(n, tw, cw_arg) ==
    tw - SumSpecified(InitialWidths(n, cw_arg)) - (n - 1)

\* self.channel_widths.count(None) (line 32).
NumNone(ws) == Cardinality({i \in DOMAIN ws : ws[i] = None})

\* self.channel_widths as the constructor leaves it (lines 20-37).
ResolveWidths(n, tw, cw_arg) ==
    LET ws  == InitialWidths(n, cw_arg)
        rem == RemainingWidth(n, tw, cw_arg)
    IN  IF rem < 0 THEN ws
        ELSE IF rem > 0 /\ NumNone(ws) > 0
             THEN [i \in DOMAIN ws |->
                      IF ws[i] = None THEN <<rem \div NumNone(ws)>> ELSE ws[i]]
             ELSE ws

\* What the resolution prints (lines 28-29 and 38-39).
WidthDiagnostics(n, tw, cw_arg, v) ==
    LET ws  == InitialWidths(n, cw_arg)
        rem == RemainingWidth(n, tw, cw_arg)
    IN  IF rem < 0
        THEN (IF v THEN <<[kind |-> "overflow", text |-> <<>>]>> ELSE <<>>)
        ELSE IF rem > 0 /\ NumNone(ws) > 0 /\ v
             THEN <<[kind |-> "distributed", text |-> <<>>]>>
             ELSE <<>>

\* headers that keeps the first n of a longer list.
StoredHeadersTruncating(n, h_arg) ==
    IF h_arg # None /\ Len(h_arg) >= n THEN SubSeq(h_arg, 1, n) ELSE None

\* self.headers (line 14).
StoredHeaders(n, h_arg) ==
    IF h_arg # <<>> /\ Len(h_arg) = n THEN h_arg ELSE None

\* The channel_data argument loaded by the loop of lines 42-48: element i
\* goes to channel i through add_data when i < no_channels.
LoadedData(n, cd_arg) ==
    [c \in 1..Max(n, 0) |-> IF c <= Len(cd_arg) THEN <<Str(cd_arg[c])>> ELSE <<>>]

LoadedHistory(n, cd_arg) ==
    [c \in 1..Min(Max(n, 0), Len(cd_arg)) |-> [index |-> c - 1, data |-> cd_arg[c]]]

\* One warning for every element beyond the channels (lines 46-48).
ExcessDiagnostics(n, cd_arg, v) ==
    IF v THEN Repeat([kind |-> "excess", text |-> <<>>], Len(cd_arg) - Max(n, 0))
    ELSE <<>>

Call(op, status, index, smart) ==
    [op |-> op, status |-> status, index |-> index, smart |-> smart]

Output_init(n, cd_arg, tw, b, h_arg, cw_arg, v) ==
    /\ ~constructed
    /\ constructed' = TRUE
    /\ no_channels' = n
    /\ total_width' = tw
    /\ border' = b
    /\ verbose' = v
    /\ headers' = StoredHeaders(n, h_arg)
    /\ channel_widths' = ResolveWidths(n, tw, cw_arg)
    /\ channel_data' = LoadedData(n, cd_arg)
    /\ appended' = LoadedHistory(n, cd_arg)
    /\ initial_widths' = InitialWidths(n, cw_arg)
    /\ headers_arg' = h_arg
    /\ UNCHANGED <<commands, lookup>>
    /\ wrapped_data' = <<>>
    /\ printed' = WidthDiagnostics(n, tw, cw_arg, v) \o ExcessDiagnostics(n, cd_arg, v)
    /\ result' = Call("init", "ok", 0, FALSE)

(***************************************************************************)
(* Output.add_data                                                         *)
(***************************************************************************)
\* add_data without the lower bound of line 52: a negative index reaches
\* self.channel_data[channel_index], which counts from the end of the list.
add_data_no_lower_bound(channel_index, data) ==
    /\ constructed
    /\ IF channel_index < no_channels /\ no_channels + channel_index >= 0
       THEN /\ Len(appended) < MaxEntries
            /\ LET pos == IF channel_index < 0 THEN no_channels + channel_index
                          ELSE channel_index
               IN  channel_data' = [channel_data EXCEPT ![pos + 1] = Append(@, Str(data))]
            /\ appended' = Append(appended, [index |-> channel_index, data |-> data])
            /\ result' = Call("add_data", "ok", channel_index, FALSE)
       ELSE /\ result' = Call("add_data", "raise", channel_index, FALSE)
            /\ UNCHANGED <<channel_data, appended>>
    /\ printed' = <<>>
    /\ wrapped_data' = <<>>
    /\ UNCHANGED <<constructed, no_channels, total_width, border, verbose,
                   headers, channel_widths, initial_widths, headers_arg,
                   commands, lookup>>

\* add_data that keeps an entry only once per channel.
add_data_dedup(channel_index, data) ==
    /\ constructed
    /\ IF 0 <= channel_index /\ channel_index < no_channels
       THEN /\ Len(appended) < MaxEntries
            /\ channel_data' =
                   [channel_data EXCEPT ![channel_index + 1] =
                       IF \E k \in DOMAIN @ : @[k] = Str(data) THEN @
                       ELSE Append(@, Str(data))]
            /\ appended' = Append(appended, [index |-> channel_index, data |-> data])
            /\ result' = Call("add_data", "ok", channel_index, FALSE)
       ELSE /\ result' = Call("add_data", "raise", channel_index, FALSE)
            /\ UNCHANGED <<channel_data, appended>>
    /\ printed' = <<>>
    /\ wrapped_data' = <<>>
    /\ UNCHANGED <<constructed, no_channels, total_width, border, verbose,
                   headers, channel_widths, initial_widths, headers_arg,
                   commands, lookup>>

add_data(channel_index, data) ==
    /\ constructed
    /\ IF 0 <= channel_index /\ channel_index < no_channels
       THEN /\ Len(appended) < MaxEntries
            /\ channel_data' = [channel_data EXCEPT
                                   ![channel_index + 1] = Append(@, Str(data))]
            /\ appended' = Append(appended, [index |-> channel_index, data |-> data])
            /\ result' = Call("add_data", "ok", channel_index, FALSE)
       ELSE /\ result' = Call("add_data", "raise", channel_index, FALSE)
            /\ UNCHANGED <<channel_data, appended>>
    /\ printed' = <<>>
    /\ wrapped_data' = <<>>
    /\ UNCHANGED <<constructed, no_channels, total_width, border, verbose,
                   headers, channel_widths, initial_widths, headers_arg,
                   commands, lookup>>

(***************************************************************************)
(* Output.print_all_data                                                   *)
(***************************************************************************)
Line(kind, text) == [kind |-> kind, text |-> text]

\* split_index that cuts one character past the column without smart_wrap.
SplitIndexPastWidth(part, column_width, smart_wrap) ==
    IF smart_wrap
    THEN LET split_index == RFind(part, " ", 0, column_width)
         IN  IF split_index = -1 THEN column_width ELSE split_index
    ELSE column_width + 1

\* split_index that looks for the last space whatever smart_wrap is.
SplitIndexAlwaysSmart(part, column_width, smart_wrap) ==
    LET split_index == RFind(part, " ", 0, column_width)
    IN  IF split_index = -1 THEN column_width ELSE split_index

\* split_index (lines 72-78).
SplitIndex(part, column_width, smart_wrap) ==
    IF smart_wrap
    THEN LET split_index == RFind(part, " ", 0, column_width)
         IN  IF split_index = -1 THEN column_width ELSE split_index
    ELSE column_width

\* A wrapping loop that drops the character at the cut, space or not.
RECURSIVE WrapPartDroppingCut(_, _, _)
WrapPartDroppingCut(part, column_width, smart_wrap) ==
    IF ~(Len(part) > column_width)
    THEN [rows |-> <<part>>, status |-> "ok"]
    ELSE LET split_index == SplitIndex(part, column_width, smart_wrap)
             row  == Strip(Prefix(part, split_index))
             rest == Strip(Suffix(part, split_index + 1))
         IN  IF rest = part
             THEN [rows |-> <<>>, status |-> "hang"]
             ELSE LET r == WrapPartDroppingCut(rest, column_width, smart_wrap)
                  IN  [rows |-> <<row>> \o r.rows, status |-> r.status]

\* The while loop of lines 71-81 on one part.  Its only state is part; an
\* iteration that leaves part as it found it repeats for ever ("hang").
\* Otherwise the part gets shorter, and the loop ends.
RECURSIVE WrapPart(_, _, _)
WrapPart(part, column_width, smart_wrap) ==
    IF ~(Len(part) > column_width)
    THEN [rows |-> <<part>>, status |-> "ok"]
    ELSE LET split_index == SplitIndex(part, column_width, smart_wrap)
             row  == Strip(Prefix(part, split_index))
             rest == Strip(Suffix(part, split_index))
         IN  IF rest = part
             THEN [rows |-> <<>>, status |-> "hang"]
             ELSE LET r == WrapPart(rest, column_width, smart_wrap)
                  IN  [rows |-> <<row>> \o r.rows, status |-> r.status]

\* The passes of the while loop of lines 71-80 on one part: the text each
\* pass finds in part and the split_index it cuts at.  The list stops at a
\* pass that leaves part as it found it.
RECURSIVE Cuts(_, _, _)
Cuts(part, column_width, smart_wrap) ==
    IF ~(Len(part) > column_width)
    THEN <<>>
    ELSE LET split_index == SplitIndex(part, column_width, smart_wrap)
             rest == Strip(Suffix(part, split_index))
             pass == [part |-> part, split_index |-> split_index]
         IN  IF rest = part THEN <<pass>>
             ELSE <<pass>> \o Cuts(rest, column_width, smart_wrap)

\* The entries of a channel taken whole, line breaks and all.
PartsWhole(channel) == channel

\* The parts of all entries of a channel, in order (lines 69-70).
RECURSIVE Parts(_)
Parts(channel) ==
    IF channel = <<>> THEN <<>>
    ELSE Split(Head(channel), "\n") \o Parts(Tail(channel))

\* Lines 69-81 over the parts of one channel; a width of None makes the
\* comparison of line 71 raise TypeError on the first part.
RECURSIVE WrapParts(_, _, _)
WrapParts(parts, width, smart_wrap) ==
    IF parts = <<>> THEN [rows |-> <<>>, status |-> "ok"]
    ELSE IF width = None THEN [rows |-> <<>>, status |-> "raise"]
    ELSE LET r == WrapPart(Head(parts), width[1], smart_wrap)
         IN  IF r.status # "ok" THEN r
             ELSE LET rr == WrapParts(Tail(parts), width, smart_wrap)
                  IN  [rows |-> r.rows \o rr.rows, status |-> rr.status]

WrapChannel(channel, width, smart_wrap) ==
    WrapParts(Parts(channel), width, smart_wrap)

\* wrapped_data (lines 61-82): the channels in order, stopping at the first
\* one that does not come back.
RECURSIVE WrapAll(_, _, _)
WrapAll(data, widths, smart_wrap) ==
    IF data = <<>> THEN [wrapped |-> <<>>, status |-> "ok"]
    ELSE LET r == WrapChannel(Head(data), Head(widths), smart_wrap)
         IN  IF r.status # "ok" THEN [wrapped |-> <<>>, status |-> r.status]
             ELSE LET rr == WrapAll(Tail(data), Tail(widths), smart_wrap)
                  IN  [wrapped |-> <<r.rows>> \o rr.wrapped, status |-> rr.status]

\* max_rows that is never less than one row.
RECURSIVE MaxRowsAtLeastOne(_)
MaxRowsAtLeastOne(wrapped) ==
    IF Len(wrapped) = 1 THEN Max(Len(wrapped[1]), 1)
    ELSE Max(Len(wrapped[1]), MaxRowsAtLeastOne(Tail(wrapped)))

\* max(len(rows) for rows in wrapped_data) (line 85), of a non-empty list.
RECURSIVE MaxRows(_)
MaxRows(wrapped) ==
    IF Len(wrapped) = 1 THEN Len(wrapped[1])
    ELSE Max(Len(wrapped[1]), MaxRows(Tail(wrapped)))

\* A border line with total_width line characters between the corners.
BorderLineFullWidth(tw) ==
    Line("border", <<"+">> \o Repeat(horizontal_line_char, tw) \o <<"+">>)

\* The border line (lines 89, 96, 118).
BorderLine(tw) ==
    Line("border", <<"+">> \o Repeat(horizontal_line_char, tw - 2) \o <<"+">>)

BorderLines(b, tw) == IF b THEN <<BorderLine(tw)>> ELSE <<>>

\* f" {self.partition_char} "
Separator == <<" ", partition_char, " ">>

\* The header row (lines 93-94).
HeaderLine(hs, widths, tw) ==
    Line("header",
         Center(Join(Separator, [i \in DOMAIN hs |-> Center(hs[i], widths[i][1])]), tw))

\* A cell that pads its fragment on the left.
CellRjust(channel_rows, column_width, i) ==
    IF i < Len(channel_rows)
    THEN Repeat(" ", column_width - Len(channel_rows[i + 1])) \o channel_rows[i + 1]
    ELSE Repeat(" ", column_width)

\* A cell that is empty for a channel without a fragment in row i.
CellNoPadding(channel_rows, column_width, i) ==
    IF i < Len(channel_rows) THEN Ljust(channel_rows[i + 1], column_width)
    ELSE <<>>

\* The cell of one channel in row i, before truncation (lines 102-105).
Cell(channel_rows, column_width, i) ==
    IF i < Len(channel_rows) THEN Ljust(channel_rows[i + 1], column_width)
    ELSE Repeat(" ", column_width)

\* The cell after the truncation of lines 108-112.
Truncated(cell, column_width) ==
    IF Len(cell) > column_width THEN Prefix(cell, column_width) ELSE cell

\* The warnings of line 111 for row i, one per cell that is too long.
RECURSIVE TruncationWarnings(_, _, _, _)
TruncationWarnings(wrapped, widths, i, v) ==
    IF wrapped = <<>> THEN <<>>
    ELSE (IF v /\ Len(Cell(Head(wrapped), Head(widths)[1], i)) > Head(widths)[1]
          THEN <<Line("truncated", <<>>)>> ELSE <<>>)
         \o TruncationWarnings(Tail(wrapped), Tail(widths), i, v)

\* The cells of row i as line 114 joins them.
RowCells(wrapped, widths, i) ==
    [c \in DOMAIN wrapped |->
        Truncated(Cell(wrapped[c], widths[c][1], i), widths[c][1])]

\* What one pass of the loop of lines 99-114 prints for row i.
RowLines(wrapped, widths, tw, i, v) ==
    TruncationWarnings(wrapped, widths, i, v)
    \o <<Line("data", Center(Join(Separator, RowCells(wrapped, widths, i)), tw))>>

RECURSIVE DataLines(_, _, _, _, _, _)
DataLines(wrapped, widths, tw, i, max_rows, v) ==
    IF i >= max_rows THEN <<>>
    ELSE RowLines(wrapped, widths, tw, i, v)
         \o DataLines(wrapped, widths, tw, i + 1, max_rows, v)

AnyNone(widths) == \E i \in DOMAIN widths : widths[i] = None

\* print_all_data as a whole: how it ends and what it has printed by then.
\*   "hang":  the while loop of line 71 never ends;
\*   "raise": TypeError from a width of None (lines 71, 93, 103, 105) or
\*            ValueError from max() of no channels (line 85).
Render(data, widths, hs, b, tw, v, smart_wrap) ==
    LET w == WrapAll(data, widths, smart_wrap)
    IN  IF w.status # "ok"
        THEN [status |-> w.status, lines |-> <<>>, wrapped |-> w.wrapped]
        ELSE IF w.wrapped = <<>>
        THEN [status |-> "raise", lines |-> <<>>, wrapped |-> w.wrapped]
        ELSE LET max_rows == MaxRows(w.wrapped)
                 top == BorderLines(b, tw)
             IN  IF hs # None /\ AnyNone(widths)
                 THEN [status |-> "raise", lines |-> top, wrapped |-> w.wrapped]
                 ELSE LET head == IF hs # None
                                  THEN <<HeaderLine(hs, widths, tw)>> \o BorderLines(b, tw)
                                  ELSE <<>>
                      IN  IF max_rows > 0 /\ AnyNone(widths)
                          THEN [status |-> "raise", lines |-> top \o head,
                                wrapped |-> w.wrapped]
                          ELSE [status |-> "ok", wrapped |-> w.wrapped,
                                lines |-> top \o head
                                          \o DataLines(w.wrapped, widths, tw, 0, max_rows, v)
                                          \o BorderLines(b, tw)]

\* print_all_data that empties the channels it has printed.
print_all_data_consuming(smart_wrap) ==
    /\ constructed
    /\ LET r == Render(channel_data, channel_widths, headers, border,
                       total_width, verbose, smart_wrap)
       IN  /\ result' = Call("render", r.status, 0, smart_wrap)
           /\ printed' = r.lines
           /\ wrapped_data' = r.wrapped
           /\ channel_data' = IF r.status = "ok"
                              THEN [c \in DOMAIN channel_data |-> <<>>]
                              ELSE channel_data
    /\ UNCHANGED <<constructed, no_channels, total_width, border, verbose,
                   headers, channel_widths, initial_widths, headers_arg,
                   appended, commands, lookup>>

print_all_data(smart_wrap) ==
    /\ constructed
    /\ LET r == Render(channel_data, channel_widths, headers, border,
                       total_width, verbose, smart_wrap)
       IN  /\ result' = Call("render", r.status, 0, smart_wrap)
           /\ printed' = r.lines
           /\ wrapped_data' = r.wrapped
    /\ UNCHANGED <<constructed, no_channels, total_width, border, verbose,
                   headers, channel_widths, channel_data, initial_widths,
                   headers_arg, appended, commands, lookup>>

(***************************************************************************)
(* The specification: one instance is constructed, then its methods are    *)
(* called in any order.                                                    *)
(***************************************************************************)
ChannelCounts == (-1)..MaxChannels

TotalWidths == 1..MaxTotalWidth

\* channel_widths arguments: None, or one width or None per channel.
WidthArgs(n) ==
    {None} \cup (IF n >= 1 THEN [1..n -> {None} \cup {<<w>> : w \in ExplicitWidths}]
                 ELSE {})

\* headers arguments: None, one header per channel, or a list of another
\* length: one header too few for two channels or more, else one too many.
HeaderArgs(n) ==
    {None, [i \in 1..Max(n, 0) |-> HeaderText],
     [i \in 1..(IF n >= 2 THEN n - 1 ELSE Max(n, 0) + 1) |-> HeaderText]}

\* channel_data arguments: None, or one item for the first channel.
DataArgs == {None, <<IntItem(12)>>}

Indices == (-1)..MaxChannels

Init ==
    /\ constructed = FALSE
    /\ no_channels = 0
    /\ total_width = 0
    /\ border = FALSE
    /\ verbose = FALSE
    /\ headers = None
    /\ channel_widths = <<>>
    /\ channel_data = <<>>
    /\ appended = <<>>
    /\ printed = <<>>
    /\ wrapped_data = <<>>
    /\ initial_widths = <<>>
    /\ headers_arg = None
    /\ commands = <<>>
    /\ lookup = [op |-> "none", input |-> <<>>, status |-> "ok", found |-> <<>>]
    /\ result = Call("none", "ok", 0, FALSE)

Construct ==
    \E n \in ChannelCounts, tw \in TotalWidths, b \in BOOLEAN, v \in BOOLEAN :
        \E cd_arg \in DataArgs, h_arg \in HeaderArgs(n), cw_arg \in WidthArgs(n) :
            Output_init(n, cd_arg, tw, b, h_arg, cw_arg, v)

AddString == \E i \in Indices, d \in StrItems : add_data(i, d)

AddInteger == \E i \in Indices, d \in IntItems : add_data(i, d)

PrintAllData == \E smart_wrap \in BOOLEAN : print_all_data(smart_wrap)

Next == Construct \/ AddString \/ AddInteger \/ PrintAllData

Spec == Init /\ [][Next]_vars

(***************************************************************************)
(* The wrapping specification: a layout of one channel, whose column is    *)
(* the whole total_width (lines 24, 32-37), receives one entry drawn from  *)
(* every text over WrapAlphabet and from LetteredTexts and is rendered;    *)
(* beside it, the layout of two channels over 20 columns with the entry    *)
(* "hello world foo".                                                      *)
(***************************************************************************)
WrapAlphabet == {"a", " ", "\t", "\n"}

Texts == UNION {[1..k -> WrapAlphabet] : k \in 0..MaxTextLen}

\* Texts of several letters, in which a change of order shows.
LetteredTexts ==
    { <<"a", "b", " ", "c", "d">>,
      <<"a", "b", "c", "d", "e">>,
      <<"a", " ", "b", "\n", "c", "d">> }

WrapWidths == 1..MaxWrapWidth

ExampleText ==
    <<"h", "e", "l", "l", "o", " ", "w", "o", "r", "l", "d", " ", "f", "o", "o">>

WrapConstruct ==
    \E tw \in WrapWidths, v \in BOOLEAN :
        Output_init(1, None, tw, FALSE, None, None, v)

ExampleConstruct == Output_init(2, None, 20, FALSE, None, None, FALSE)

WrapAdd ==
    /\ no_channels = 1
    /\ appended = <<>>
    /\ \E s \in Texts \cup LetteredTexts : add_data(0, StrItem(s))

ExampleAdd ==
    /\ no_channels = 2
    /\ appended = <<>>
    /\ add_data(0, StrItem(ExampleText))

WrapNext ==
    WrapConstruct \/ ExampleConstruct \/ WrapAdd \/ ExampleAdd \/ PrintAllData

WrapSpec == Init /\ [][WrapNext]_vars

(***************************************************************************)
(* The command lookup: MainClass of low_level_interface.py holds the       *)
(* commands in load order; Main.parse_input of main.py looks one up.       *)
(***************************************************************************)
\* A Command, by the two attributes the lookup reads.
Command(display_name, trigger_command) ==
    [display_name |-> display_name, trigger_command |-> trigger_command]

DisplayNames == { <<"L", "s">>, <<"E", "r", "r", "o", "r">> }

Triggers == { <<"l">>, <<"l", "s", " ", "-", "a">>, <<"c", "d">> }

Commands == {Command(d, t) : d \in DisplayNames, t \in Triggers}

\* The command lists a configuration file can hold.
CommandLists == UNION {[1..k -> Commands] : k \in 0..MaxCommands}

Inputs ==
    { <<>>, <<"x">>, <<"l">>, <<"l", "s">>, <<"l", "s", " ", "-", "a">>,
      <<"c", "d", " ", "x">> }

\* s.startswith(prefix)
StartsWith(s, prefix) ==
    Len(prefix) <= Len(s) /\ SubSeq(s, 1, Len(prefix)) = prefix

\* cmd.trigger_command.split(' ')[0] (line 119)
BaseCommand(cmd) == Split(cmd.trigger_command, " ")[1]

\* find_command_by_trigger (lines 116-124): the first command whose base
\* command starts the input, as <<cmd>>, or None.
RECURSIVE FindCommandByTrigger(_, _)
FindCommandByTrigger(cmds, trigger_command) ==
    IF cmds = <<>> THEN None
    ELSE IF StartsWith(trigger_command, BaseCommand(Head(cmds)))
    THEN <<Head(cmds)>>
    ELSE FindCommandByTrigger(Tail(cmds), trigger_command)

Lookup(op, input, status, found) ==
    [op |-> op, input |-> input, status |-> status, found |-> found]

\* MainClass.__init__ with load_from_file (lines 49-93): the commands of
\* the file, in file order.
MainClass_init(cmds) ==
    /\ lookup.op = "none"
    /\ commands' = cmds
    /\ lookup' = Lookup("load", <<>>, "ok", None)
    /\ UNCHANGED <<constructed, no_channels, total_width, border, verbose,
                   headers, channel_widths, channel_data, result, printed,
                   wrapped_data, initial_widths, headers_arg, appended>>

find_command_by_trigger(trigger_command) ==
    /\ lookup.op # "none"
    /\ lookup' = Lookup("find", trigger_command, "ok",
                        FindCommandByTrigger(commands, trigger_command))
    /\ UNCHANGED <<constructed, no_channels, total_width, border, verbose,
                   headers, channel_widths, channel_data, result, printed,
                   wrapped_data, initial_widths, headers_arg, appended,
                   commands>>

\* Main.parse_input (main.py lines 26-34): command.display_name of line 29
\* raises AttributeError when the lookup returned None; both branches of
\* the test return None.
parse_input(input) ==
    /\ lookup.op # "none"
    /\ LET command == FindCommandByTrigger(commands, input)
       IN  lookup' = Lookup("parse", input,
                            IF command = None THEN "raise" ELSE "ok", command)
    /\ UNCHANGED <<constructed, no_channels, total_width, border, verbose,
                   headers, channel_widths, channel_data, result, printed,
                   wrapped_data, initial_widths, headers_arg, appended,
                   commands>>

Load == \E cmds \in CommandLists : MainClass_init(cmds)

Find == \E i \in Inputs : find_command_by_trigger(i)

Parse == \E i \in Inputs : parse_input(i)

CommandNext == Load \/ Find \/ Parse

CommandSpec == Init /\ [][CommandNext]_vars

(***************************************************************************)
(* The claims.                                                             *)
(***************************************************************************)
\* remaining_width as the constructor computed it (line 24).
RemainingAtConstruction ==
    total_width - SumSpecified(initial_widths) - (no_channels - 1)

Rendered == result.op = "render"

RenderedOk == result.op = "render" /\ result.status = "ok"

DataLinesPrinted == SelectSeq(printed, LAMBDA l : l.kind = "data")

\* C1: add_data with a channel index outside 0 <= index < no_channels, every
\* negative index included, raises, and the failed call leaves the entry
\* list of every channel as it was.
C1_InvalidIndexRaises ==
    [][(result'.op = "add_data" /\ ~(0 <= result'.index /\ result'.index < no_channels))
          => (result'.status = "raise" /\ channel_data' = channel_data)]_vars

\* A call with a negative index has raised on a layout that holds entries.
C1_Witness ==
    /\ result.op = "add_data"
    /\ result.index < 0
    /\ result.status = "raise"
    /\ appended # <<>>

\* The string forms of the items the history records for channel c, in
\* call order.
RECURSIVE FormsFor(_, _)
FormsFor(hist, c) ==
    IF hist = <<>> THEN <<>>
    ELSE (IF Head(hist).index = c
          THEN <<IF Head(hist).data.t = "int" THEN IntToStr(Head(hist).data.v)
                 ELSE Head(hist).data.v>>
          ELSE <<>>)
         \o FormsFor(Tail(hist), c)

\* C2: each channel's entry list is the sequence of string forms of the
\* items appended to it, in call order and with duplicates kept; an accepted
\* add_data on channel i extends channel i by one entry at the end and
\* leaves the other channels, the resolved widths and the headers unchanged.
C2_AppendsInOrder ==
    /\ [](\A c \in DOMAIN channel_data : channel_data[c] = FormsFor(appended, c - 1))
    /\ [][(result'.op = "add_data" /\ result'.status = "ok")
            => /\ DOMAIN channel_data' = DOMAIN channel_data
               /\ \A c \in DOMAIN channel_data :
                     IF c = result'.index + 1
                     THEN /\ Len(channel_data'[c]) = Len(channel_data[c]) + 1
                          /\ SubSeq(channel_data'[c], 1, Len(channel_data[c])) = channel_data[c]
                     ELSE channel_data'[c] = channel_data[c]
               /\ channel_widths' = channel_widths
               /\ headers' = headers]_vars

\* The same item has been appended twice to one channel, which holds both.
C2_Witness ==
    /\ result.op = "add_data"
    /\ result.status = "ok"
    /\ \E c \in DOMAIN channel_data :
          /\ Len(channel_data[c]) = 2
          /\ channel_data[c][1] = channel_data[c][2]

\* C3: constructing the layout with no_channels <= 0 fails, and no instance
\* is returned.
C3_NoInstanceWithoutChannels == constructed => no_channels > 0

\* C4: after a construction with no_channels > 0 whose widths do not
\* overflow (remaining_width >= 0), every entry of channel_widths is an
\* integer, none is left None; with remaining_width = 0 every unspecified
\* entry is 0.
C4_WidthsResolved ==
    (constructed /\ no_channels > 0 /\ RemainingAtConstruction >= 0)
        => /\ \A i \in DOMAIN channel_widths : channel_widths[i] # None
           /\ RemainingAtConstruction = 0
                 => \A i \in DOMAIN channel_widths :
                       initial_widths[i] = None => channel_widths[i] = <<0>>

\* The sum of a sequence of resolved widths.
RECURSIVE SumWidths(_)
SumWidths(ws) == IF ws = <<>> THEN 0 ELSE Head(ws)[1] + SumWidths(Tail(ws))

\* C5: with no_channels > 0, total_width > 0 and every width unspecified,
\* every channel resolves to floor((total_width - (no_channels - 1)) /
\* no_channels), and the resolved widths plus no_channels - 1 make
\* total_width less the remainder of that division.
C5_EvenShare ==
    (constructed /\ no_channels > 0 /\ total_width > 0
       /\ \A i \in DOMAIN initial_widths : initial_widths[i] = None)
        => LET avail == total_width - (no_channels - 1)
               share == avail \div no_channels
               dropped == avail % no_channels
           IN  /\ \A i \in DOMAIN channel_widths : channel_widths[i] = <<share>>
               /\ dropped >= 0 /\ dropped < no_channels
               /\ SumWidths(channel_widths) + (no_channels - 1) = total_width - dropped

\* C6: the separators the join of line 114 inserts take the no_channels - 1
\* characters the constructor reserved: when the widths do not overflow, no
\* joined row is wider than total_width, and every data line printed is
\* exactly total_width characters long.
C6_RowsFitTotalWidth ==
    (RenderedOk /\ RemainingAtConstruction >= 0)
        => \A k \in DOMAIN printed :
              printed[k].kind = "data" => Len(printed[k].text) = total_width

\* C7: print_all_data terminates on every layout the constructor accepts,
\* whatever was appended and whatever smart_wrap is, a channel of width 0
\* that holds text included.
C7_RenderTerminates == Rendered => result.status # "hang"

\* C8: when the explicit widths and the separators exceed total_width the
\* constructor still returns, it prints the overflow diagnostic exactly when
\* verbose is set, and a later print_all_data does not raise, whether or not
\* some widths were left None.
C8_OverflowTolerated ==
    (constructed /\ RemainingAtConstruction < 0)
        => /\ result.op = "init"
                 => ((\E k \in DOMAIN printed : printed[k].kind = "overflow") <=> verbose)
           /\ Rendered => result.status = "ok"

\* C9 as claimed: a print_all_data that completes on a layout to which
\* nothing was appended prints exactly one data row, every cell of it blank
\* and as wide as its channel.
C9_OneBlankRow ==
    (RenderedOk /\ appended = <<>> /\ no_channels > 0)
        => /\ Len(DataLinesPrinted) = 1
           /\ DataLinesPrinted[1].text =
                 Center(Join(Separator,
                             [c \in DOMAIN channel_widths |->
                                 Repeat(" ", channel_widths[c][1])]),
                        total_width)

\* The kinds of the border and header lines the configuration asks for.
FrameKinds ==
    (IF border THEN <<"border">> ELSE <<>>)
    \o (IF headers # None
        THEN <<"header">> \o (IF border THEN <<"border">> ELSE <<>>)
        ELSE <<>>)
    \o (IF border THEN <<"border">> ELSE <<>>)

\* C9 as amended: print_all_data on a layout to which nothing was appended
\* prints no data row at all; when it completes, its lines are exactly the
\* border and header lines that are configured.
C9_NoRowWithoutEntries ==
    (Rendered /\ appended = <<>>)
        => /\ DataLinesPrinted = <<>>
           /\ result.status # "hang"
           /\ result.status = "ok"
                 => [k \in DOMAIN printed |-> printed[k].kind] = FrameKinds

\* An empty layout with a border and headers has been printed.
C9_Witness ==
    /\ RenderedOk
    /\ appended = <<>>
    /\ border
    /\ headers # None
    /\ Len(printed) = 4

\* C10: an entry without line breaks that is no longer than the column
\* wraps to exactly one fragment, the entry without its leading and
\* trailing whitespace, for both values of smart_wrap.
C10_ShortEntryOneTrimmedFragment ==
    RenderedOk
        => \A c \in DOMAIN channel_data :
              (/\ Len(channel_data[c]) = 1
               /\ channel_widths[c] # None
               /\ Len(channel_data[c][1]) <= channel_widths[c][1]
               /\ \A j \in DOMAIN channel_data[c][1] : channel_data[c][1][j] # "\n")
                  => wrapped_data[c] = <<Strip(channel_data[c][1])>>

\* The passes of the wrapping loop over every part of channel c, in order,
\* as the last render made them.
RECURSIVE PartCuts(_, _, _)
PartCuts(parts, column_width, smart_wrap) ==
    IF parts = <<>> THEN <<>>
    ELSE Cuts(Head(parts), column_width, smart_wrap)
         \o PartCuts(Tail(parts), column_width, smart_wrap)

CutsOfChannel(c) ==
    PartCuts(Parts(channel_data[c]), channel_widths[c][1], result.smart)

\* A cut at offset k of text falls inside a word: the characters on both
\* sides of it are no whitespace.
MidWord(text, k) ==
    /\ 1 <= k /\ k < Len(text)
    /\ text[k] \notin Whitespace
    /\ text[k + 1] \notin Whitespace

\* C11: in a smart-wrap render, a pass that finds a text longer than the
\* column width with a space or a tab among its first column_width
\* characters does not cut inside a word: the fragment it makes does not
\* end in a word that the next fragment continues.
C11_SmartCutsAtWhitespace ==
    (RenderedOk /\ result.smart) =>
        \A c \in DOMAIN channel_data :
            \A i \in DOMAIN CutsOfChannel(c) :
                LET pass == CutsOfChannel(c)[i]
                    w    == channel_widths[c][1]
                IN  (\E j \in 1..w : pass.part[j] \in {" ", "\t"})
                    => ~MidWord(pass.part, pass.split_index)

\* The fragments of one paragraph when every cut takes the first
\* column_width characters of the text that is left (column_width >= 1).
RECURSIVE HardFragments(_, _)
HardFragments(text, column_width) ==
    IF Len(text) <= column_width THEN <<text>>
    ELSE <<Strip(SubSeq(text, 1, column_width))>>
         \o HardFragments(Strip(SubSeq(text, column_width + 1, Len(text))),
                          column_width)

RECURSIVE HardFragmentsOfAll(_, _)
HardFragmentsOfAll(paragraphs, column_width) ==
    IF paragraphs = <<>> THEN <<>>
    ELSE HardFragments(Head(paragraphs), column_width)
         \o HardFragmentsOfAll(Tail(paragraphs), column_width)

\* C12: in a render without smart wrap, of columns at least one character
\* wide, every pass of the wrapping loop cuts at exactly column_width, and
\* the fragments of a channel are, paragraph by paragraph, the trimmed
\* segments of column_width characters followed by what is left.
C12_HardCutsAtWidth ==
    (RenderedOk /\ ~result.smart) =>
        \A c \in DOMAIN channel_data :
            (channel_widths[c] # None /\ channel_widths[c][1] >= 1) =>
                /\ \A i \in DOMAIN CutsOfChannel(c) :
                       CutsOfChannel(c)[i].split_index = channel_widths[c][1]
                /\ wrapped_data[c] =
                       HardFragmentsOfAll(Parts(channel_data[c]), channel_widths[c][1])

\* A render without smart wrap has cut inside a word although the text had
\* a space among its first column_width characters.
C12_Witness ==
    /\ RenderedOk /\ ~result.smart
    /\ no_channels = 1
    /\ \E i \in DOMAIN CutsOfChannel(1) :
           LET pass == CutsOfChannel(1)[i]
           IN  /\ MidWord(pass.part, pass.split_index)
               /\ \E j \in 1..channel_widths[1][1] : pass.part[j] = " "

\* The paragraphs of a text: what stands between its line breaks.
RECURSIVE Paragraphs(_)
Paragraphs(text) ==
    IF \A i \in DOMAIN text : text[i] # "\n" THEN <<text>>
    ELSE LET i == CHOOSE k \in DOMAIN text :
                      text[k] = "\n" /\ \A j \in 1..(k - 1) : text[j] # "\n"
         IN  <<SubSeq(text, 1, i - 1)>> \o Paragraphs(SubSeq(text, i + 1, Len(text)))

RECURSIVE ParagraphsOfAll(_)
ParagraphsOfAll(entries) ==
    IF entries = <<>> THEN <<>>
    ELSE Paragraphs(Head(entries)) \o ParagraphsOfAll(Tail(entries))

RECURSIVE Flatten(_)
Flatten(texts) == IF texts = <<>> THEN <<>> ELSE Head(texts) \o Flatten(Tail(texts))

\* The characters of a text that are no whitespace, in order.
NonWs(text) == SelectSeq(text, LAMBDA ch : ch \notin Whitespace)

\* The fragments fall into one non-empty run per paragraph, in the order of
\* the paragraphs, and the run of a paragraph holds its words and no others.
RECURSIVE RunPerParagraph(_, _)
RunPerParagraph(fragments, paragraphs) ==
    IF paragraphs = <<>> THEN fragments = <<>>
    ELSE \E k \in 1..Len(fragments) :
            /\ NonWs(Flatten(SubSeq(fragments, 1, k))) = NonWs(Head(paragraphs))
            /\ RunPerParagraph(SubSeq(fragments, k + 1, Len(fragments)),
                               Tail(paragraphs))

\* C13: after a completed render, a channel has at least one fragment per
\* paragraph of its entries (n + 1 for an entry with n line breaks), no
\* fragment holds text of two paragraphs, and the paragraphs keep their
\* order.
C13_LineBreaksStartFragments ==
    RenderedOk =>
        \A c \in DOMAIN channel_data :
            /\ Len(wrapped_data[c]) >= Len(ParagraphsOfAll(channel_data[c]))
            /\ RunPerParagraph(wrapped_data[c], ParagraphsOfAll(channel_data[c]))

\* An entry with a line break was rendered and the fragment before the
\* break is shorter than the column.
C13_Witness ==
    /\ RenderedOk
    /\ no_channels = 1
    /\ Len(channel_data[1]) = 1
    /\ Len(Paragraphs(channel_data[1][1])) = 2
    /\ Len(wrapped_data[1]) = 2
    /\ wrapped_data[1][1] # <<>>
    /\ wrapped_data[1][2] # <<>>
    /\ Len(wrapped_data[1][1]) + Len(wrapped_data[1][2]) < channel_widths[1][1]

\* The layout of two channels over 20 columns without explicit widths,
\* holding "hello world foo" in channel 0 and nothing in channel 1, after a
\* completed render with smart wrap.
ExampleRendered ==
    /\ RenderedOk /\ result.smart
    /\ no_channels = 2 /\ total_width = 20
    /\ initial_widths = <<None, None>>
    /\ channel_data = <<<<ExampleText>>, <<>>>>

\* C14: in that layout both columns are 8 characters wide and channel 0 is
\* wrapped into exactly the fragments "hello" and "world foo".
C14_ExampleWidthEight ==
    ExampleRendered =>
        /\ channel_widths = <<<<8>>, <<8>>>>
        /\ wrapped_data[1] = <<SubSeq(ExampleText, 1, 5), SubSeq(ExampleText, 7, 15)>>

\* The constructor was given headers whose number is not no_channels.
MismatchedHeaders == headers_arg # None /\ Len(headers_arg) # no_channels

\* C15: a layout constructed with headers whose number differs from
\* no_channels stores no headers, and each of its renders ends as, and
\* prints the lines of, the render of the same layout without headers.
C15_MismatchedHeadersAsNone ==
    (constructed /\ MismatchedHeaders) =>
        /\ headers = None
        /\ Rendered =>
              LET r == Render(channel_data, channel_widths, None, border,
                              total_width, verbose, result.smart)
              IN  /\ result.status = r.status
                  /\ printed = r.lines
                  /\ \A i \in DOMAIN printed : printed[i].kind # "header"

\* A layout given one header too few has rendered its entries in a frame.
C15_Witness ==
    /\ RenderedOk
    /\ MismatchedHeaders
    /\ Len(headers_arg) < no_channels
    /\ border
    /\ appended # <<>>
    /\ DataLinesPrinted # <<>>

\* C16: a render that completes leaves the entries, the widths, the headers
\* and the styling of the layout as they were, and a render that follows a
\* render with the same smart_wrap, with no other call between them, ends
\* the same way and prints the same lines.
C16_RenderChangesNothing ==
    [][(result'.op = "render" /\ result'.status = "ok")
          => /\ UNCHANGED <<channel_data, channel_widths, headers, border,
                            total_width, no_channels, verbose>>
             /\ (result.op = "render" /\ result.smart = result'.smart)
                    => (printed' = printed /\ result'.status = result.status)]_vars

\* A framed layout with headers has rendered two entries.
C16_Witness ==
    /\ RenderedOk
    /\ border /\ headers # None
    /\ Len(appended) >= 2
    /\ DataLinesPrinted # <<>>

\* The largest number of fragments a channel has after the last render.
MostFragments ==
    LET counts == {Len(wrapped_data[c]) : c \in DOMAIN wrapped_data}
    IN  CHOOSE m \in counts : \A k \in counts : k <= m

\* '+', then horizontal_line_char total_width - 2 times (no times when that
\* is negative, as Python repeats a string), then '+'.
IsBorderText(text) ==
    /\ Len(text) = Max(total_width - 2, 0) + 2
    /\ text[1] = "+"
    /\ text[Len(text)] = "+"
    /\ \A i \in 2..(Len(text) - 1) : text[i] = horizontal_line_char

\* C17: a completed render prints, in this order, the top border if border
\* is set, the header row and (if border is set) a border under it if the
\* layout has headers, one data line per row up to the largest fragment
\* count, and the bottom border if border is set; nothing else is printed,
\* and every border line is '+', total_width - 2 line characters, '+'.
C17_LineOrder ==
    RenderedOk =>
        /\ [k \in DOMAIN printed |-> printed[k].kind]
               = (IF border THEN <<"border">> ELSE <<>>)
                 \o (IF headers # None
                     THEN <<"header">> \o (IF border THEN <<"border">> ELSE <<>>)
                     ELSE <<>>)
                 \o [r \in 1..MostFragments |-> "data"]
                 \o (IF border THEN <<"border">> ELSE <<>>)
        /\ \A k \in DOMAIN printed :
               printed[k].kind = "border" => IsBorderText(printed[k].text)

\* A framed layout with headers has printed two rows between borders wider
\* than their corners.
C17_Witness ==
    /\ RenderedOk
    /\ border /\ headers # None
    /\ total_width >= 3
    /\ MostFragments >= 2
    /\ Len(printed) = 3 + MostFragments + 1

\* The length of a row once its cells are joined by the separator.
JoinedLength == SumWidths(channel_widths) + 3 * (no_channels - 1)

\* The blanks that centring a joined row may put to the left of it.
LeftPads(text) ==
    {(Len(text) - JoinedLength) \div 2, (Len(text) - JoinedLength + 1) \div 2}

\* The cell of channel c in a printed row whose joined cells start after
\* left blanks.
CellAt(text, left, c) ==
    LET offset == left + SumWidths(SubSeq(channel_widths, 1, c - 1)) + 3 * (c - 1)
    IN  SubSeq(text, offset + 1, offset + channel_widths[c][1])

FragmentAt(c, r) ==
    IF r <= Len(wrapped_data[c]) THEN wrapped_data[c][r] ELSE <<>>

\* C19: in every data row of a completed render the cell of each channel
\* is exactly column_width characters long: the fragment followed by spaces
\* when the fragment is no longer than the column, else the first
\* column_width characters of the fragment.
C19_CellsHaveColumnWidth ==
    RenderedOk =>
        \A r \in DOMAIN DataLinesPrinted :
            LET text == DataLinesPrinted[r].text
            IN  /\ Len(text) >= JoinedLength
                /\ \E left \in LeftPads(text) :
                      \A c \in DOMAIN wrapped_data :
                          LET w        == channel_widths[c][1]
                              fragment == FragmentAt(c, r)
                              cell     == CellAt(text, left, c)
                          IN  /\ Len(cell) = w
                              /\ cell = IF Len(fragment) <= w
                                        THEN fragment \o [i \in 1..(w - Len(fragment)) |-> " "]
                                        ELSE SubSeq(fragment, 1, w)

\* A row shows a fragment that is shorter than its column and ends in a
\* character that is no blank.
C19_Witness ==
    /\ RenderedOk
    /\ DataLinesPrinted # <<>>
    /\ \E c \in DOMAIN wrapped_data :
          /\ wrapped_data[c] # <<>>
          /\ wrapped_data[c][1] # <<>>
          /\ Len(wrapped_data[c][1]) < channel_widths[c][1]
          /\ wrapped_data[c][1][Len(wrapped_data[c][1])] # " "

\* The offsets 0..column_width of a text at which a space stands.
SpaceOffsets(text, column_width) ==
    {k \in 0..column_width : k < Len(text) /\ text[k + 1] = " "}

\* The fragments of a text when every cut is placed at the last space at an
\* offset of 0..column_width and the space is dropped, or at column_width
\* when there is no space at these offsets (column_width >= 1).
RECURSIVE LastSpaceFragments(_, _)
LastSpaceFragments(text, column_width) ==
    IF Len(text) <= column_width THEN <<text>>
    ELSE LET spaces == SpaceOffsets(text, column_width)
             k == IF spaces = {} THEN column_width
                  ELSE CHOOSE o \in spaces : \A m \in spaces : m <= o
         IN  <<Strip(SubSeq(text, 1, k))>>
             \o LastSpaceFragments(Strip(SubSeq(text, k + 1, Len(text))),
                                   column_width)

\* C20: in a completed smart-wrap render, a channel at least one character
\* wide that holds one entry whose only whitespace is spaces is wrapped as
\* by cuts at the last space at an offset of 0..column_width, column_width
\* included, with a cut at column_width only where no such space exists.
C20_CutAtLastWhitespaceUpToWidth ==
    (RenderedOk /\ result.smart) =>
        \A c \in DOMAIN channel_data :
            (/\ Len(channel_data[c]) = 1
             /\ channel_widths[c] # None
             /\ channel_widths[c][1] >= 1
             /\ \A j \in DOMAIN channel_data[c][1] :
                    channel_data[c][1][j] \in Whitespace => channel_data[c][1][j] = " ")
            => wrapped_data[c] = LastSpaceFragments(channel_data[c][1], channel_widths[c][1])

\* C21: after a completed render of columns at least one character wide,
\* with or without smart wrap, the fragments of every channel, put together
\* in order and rid of whitespace, are the entries of the channel put
\* together in order and rid of whitespace and line breaks: no other
\* character is dropped, added or moved.
C21_WrappingLosesNoText ==
    RenderedOk =>
        \A c \in DOMAIN channel_data :
            (channel_widths[c] # None /\ channel_widths[c][1] >= 1)
                => NonWs(Flatten(wrapped_data[c])) = NonWs(Flatten(channel_data[c]))

\* An entry of several letters was cut into fragments that, put together,
\* are not the entry: whitespace was dropped at a cut.
C21_Witness ==
    /\ RenderedOk
    /\ no_channels = 1
    /\ Len(channel_data[1]) = 1
    /\ channel_data[1][1] \in LetteredTexts
    /\ Len(wrapped_data[1]) >= 2
    /\ Flatten(wrapped_data[1]) # channel_data[1][1]

\* C22: after a completed render no fragment is longer than the column of
\* its channel, every data row is its fragments padded and joined with
\* nothing cut off, and no truncation diagnostic is among the printed
\* lines, verbose or not.
C22_NoFragmentExceedsColumn ==
    RenderedOk =>
        /\ \A c \in DOMAIN wrapped_data :
               \A k \in DOMAIN wrapped_data[c] :
                   /\ channel_widths[c] # None
                   /\ Len(wrapped_data[c][k]) <= channel_widths[c][1]
        /\ \A i \in DOMAIN printed : printed[i].kind # "truncated"
        /\ \A r \in DOMAIN DataLinesPrinted :
               NonWs(DataLinesPrinted[r].text)
                   = NonWs(Join(<<partition_char>>,
                                [c \in DOMAIN wrapped_data |-> FragmentAt(c, r)]))

\* A verbose layout has rendered a fragment that fills its column and
\* another fragment after it.
C22_Witness ==
    /\ RenderedOk
    /\ verbose
    /\ no_channels = 1
    /\ Len(wrapped_data[1]) >= 2
    /\ Len(wrapped_data[1][1]) = channel_widths[1][1]
    /\ channel_widths[1][1] >= 2

\* The first space-separated word of a trigger.
FirstWord(trigger) ==
    LET spaces == {k \in DOMAIN trigger : trigger[k] = " "}
    IN  IF spaces = {} THEN trigger
        ELSE SubSeq(trigger, 1, (CHOOSE k \in spaces : \A m \in spaces : k <= m) - 1)

\* The places in load order of the commands that match an input.
MatchesOf(input) ==
    {k \in DOMAIN commands :
        LET word == FirstWord(commands[k].trigger_command)
        IN  Len(word) <= Len(input) /\ \A j \in DOMAIN word : input[j] = word[j]}

\* C23: find_command_by_trigger returns the first command in load order
\* whose trigger's first word is a prefix of the input, and None when no
\* command matches; parse_input on an input that no command matches
\* returns without raising.
C23_LookupReturnsFirstMatch ==
    /\ lookup.op = "find" =>
          lookup.found =
              IF MatchesOf(lookup.input) = {} THEN None
              ELSE <<commands[CHOOSE k \in MatchesOf(lookup.input) :
                                  \A m \in MatchesOf(lookup.input) : k <= m]>>
    /\ (lookup.op = "parse" /\ MatchesOf(lookup.input) = {})
           => lookup.status = "ok"

====
